---- MODULE Spec2Model ----
(***************************************************************************)
(* IPCClient (src/src/model/ipc/IPCClient.ts): the child-process side of   *)
(* the parent/child IPC channel.  send() stamps a request with the wall    *)
(* clock, registers a one-shot reply listener on an EventEmitter under the *)
(* decimal string of that stamp, arms an optional timer and defers the     *)
(* actual process.send to process.nextTick.  The 'message' handler routes  *)
(* inbound messages either to the emitter (replies) or to the push         *)
(* handlers.                                                               *)
(***************************************************************************)
EXTENDS Integers, Sequences, FiniteSets, TLC

\* ---- bounds of the model ------------------------------------------------
MaxCalls == 2
MaxTicks == 1
MaxPush == 2

\* new Date().getTime() when the client is constructed
StartTime == 9

\* ---- input domains ------------------------------------------------------
Undefined == "undefined"
Times == StartTime..(StartTime + MaxTicks)
\* the timeout argument of send(): negative, zero, positive
Timeouts == {-1, 0, 1}
Results == {Undefined, "R1"}
ErrorStrings == {Undefined, "E1"}
PushTypes == {"notifyClient", "pushEncode", "other"}
PushValues == {"V1"}

\* ReplayMessage: { id, result?, error? }
ReplayMessages ==
    [hasId : {TRUE}, id : Times, type : {Undefined},
     value : {Undefined}, result : Results, error : ErrorStrings]

\* ParentMessage: { type, value? } without an id
ParentMessages ==
    [hasId : {FALSE}, id : {0}, type : PushTypes,
     value : PushValues, result : {Undefined}, error : {Undefined}]

Messages == ReplayMessages \cup ParentMessages

\* what else the parent can put on the wire: a reply that also carries a
\* type and a value, and a reply whose error text is 'IPCTimeout'
WireReplays ==
    [hasId : {TRUE}, id : Times, type : {Undefined, "pushEncode"},
     value : PushValues, result : Results,
     error : ErrorStrings \cup {"IPCTimeout"}]

WireMessages == WireReplays \cup ParentMessages

\* ---- Number.prototype.toString(10) --------------------------------------
DigitChar(d) ==
    CASE d = 0 -> "0" [] d = 1 -> "1" [] d = 2 -> "2" [] d = 3 -> "3"
      [] d = 4 -> "4" [] d = 5 -> "5" [] d = 6 -> "6" [] d = 7 -> "7"
      [] d = 8 -> "8" [] d = 9 -> "9"

RECURSIVE ToString10(_)
ToString10(n) ==
    IF n < 0 THEN "-" \o ToString10(0 - n)
    ELSE IF n < 10 THEN DigitChar(n)
    ELSE ToString10(n \div 10) \o DigitChar(n % 10)

EventNames == {ToString10(i) : i \in Times}

VARIABLES
    now,          \* new Date().getTime()
    processSend,  \* typeof process.send !== 'undefined'
    connected,    \* the IPC channel to the parent is still open
    calls,        \* every send() made so far: request id, timeout, promise
    listener,     \* this.listener: event name -> registered once-listeners
    timers,       \* calls whose setTimeout callback has not run yet
    tickQueue,    \* process.nextTick callbacks not run yet
    sent,         \* messages handed to process.send, in order
    handled,      \* the handler calls the most recent push message made
    lastEmit,     \* what the most recent listener.emit did
    running,      \* the process has not been terminated
    inLog         \* the push messages dispatched so far, with their calls

vars == <<now, processSend, connected, calls, listener, timers, tickQueue,
          sent, handled, lastEmit, running, inLog>>

CallIds == 1..Len(calls)

\* ---- Promise ------------------------------------------------------------
PendingPromise == [state |-> "pending", value |-> Undefined, by |-> "none"]

\* resolve()/reject() of a Promise executor: only the first call has effect
SettleAlways(p, state, value, by) ==
    [state |-> state, value |-> value, by |-> by]

Settle(p, state, value, by) ==
    IF p.state = "pending"
    THEN [state |-> state, value |-> value, by |-> by]
    ELSE p

\* the once-listener body of send(): error absent -> resolve(result)
OnReplay(p, replay) ==
    IF replay.error = Undefined
    THEN Settle(p, "fulfilled", replay.result, "reply")
    ELSE Settle(p, "rejected", replay.error, "reply")

\* the setTimeout body of send(): reject(new Error('IPCTimeout'))
OnTimeout(p) == Settle(p, "rejected", "IPCTimeout", "timer")

\* ---- EventEmitter -------------------------------------------------------
\* listener.once(name, cb): append cb to the listeners of name
OnceLate(ls, name, c) == ls

Once(ls, name, c) == [ls EXCEPT ![name] = Append(@, c)]

Range(s) == {s[i] : i \in DOMAIN s}

\* the listeners emit(name, ...) invokes: those registered under name
EmitAll(ls, name) == UNION {Range(ls[n]) : n \in DOMAIN ls}

EmitTargets(ls, name) == Range(ls[name])

\* once-listeners are detached by the emit that invokes them
AfterEmitKeep(ls, name) == ls

AfterEmit(ls, name) == [ls EXCEPT ![name] = <<>>]

\* listener.removeAllListeners(name)
RemoveNoListeners(ls, name) == ls

RemoveAllListeners(ls, name) == [ls EXCEPT ![name] = <<>>]

\* emit('error') without a listener throws; any other name never throws
EmitThrows(ls, name) == name = "error" /\ ls[name] = <<>>

\* ---- setTimeout arming condition of send() ------------------------------
ArmsTimerNonNegative(timeout) == timeout >= 0

ArmsTimerAboveOne(timeout) == timeout > 1

ArmsTimer(timeout) == timeout > 0

\* ---- message classification of the 'message' handler --------------------
IsReplayUntyped(msg) == msg.hasId /\ msg.type = Undefined

IsReplay(msg) == msg.hasId

\* emit() returns true if the event had listeners, false otherwise
EmitResult(ls, name) ==
    IF EmitThrows(ls, name) THEN "threw"
    ELSE IF EmitTargets(ls, name) # {} THEN "delivered"
    ELSE "dropped"

Init ==
    /\ now = StartTime
    /\ processSend \in BOOLEAN
    /\ connected = processSend
    /\ calls = <<>>
    /\ listener = [n \in EventNames |-> <<>>]
    /\ timers = {}
    /\ tickQueue = <<>>
    /\ sent = <<>>
    /\ handled = <<>>
    /\ lastEmit = "none"
    /\ running = TRUE
    /\ inLog = <<>>

\* send(option, timeout)
Send(timeout) ==
    /\ running
    /\ Len(calls) < MaxCalls
    /\ LET c == Len(calls) + 1
           id == now
       IN /\ calls' = Append(calls, [id |-> id, timeout |-> timeout,
                                     promise |-> PendingPromise])
          /\ tickQueue' = Append(tickQueue, c)
          /\ listener' = Once(listener, ToString10(id), c)
          /\ timers' = IF ArmsTimer(timeout) THEN timers \cup {c} ELSE timers
    /\ UNCHANGED <<now, processSend, connected, sent, handled, lastEmit,
                   running, inLog>>

\* the process.nextTick callback of send()
NextTick ==
    /\ running
    /\ tickQueue # <<>>
    /\ LET c == Head(tickQueue)
       IN /\ tickQueue' = Tail(tickQueue)
          /\ sent' = IF processSend /\ connected
                     THEN Append(sent, [id |-> calls[c].id])
                     ELSE sent
    /\ UNCHANGED <<now, processSend, connected, calls, listener, timers,
                   handled, lastEmit, running, inLog>>

\* process.on('message', ...) for a message that carries an id
ReceiveReplay(msg) ==
    /\ running
    /\ connected
    /\ tickQueue = <<>>
    /\ IsReplay(msg)
    /\ LET name == ToString10(msg.id)
           targets == EmitTargets(listener, name)
       IN /\ calls' = [c \in CallIds |->
                         IF c \in targets
                         THEN [calls[c] EXCEPT
                                 !.promise = OnReplay(@, msg)]
                         ELSE calls[c]]
          /\ listener' = AfterEmit(listener, name)
          /\ lastEmit' = EmitResult(listener, name)
    /\ UNCHANGED <<now, processSend, connected, timers, tickQueue, sent,
                   handled, running, inLog>>

\* the handler calls the push branches make for a message: one call of
\* socketIO.notifyClient, one call of encodeManage.push, or none
HandlerCallsFallThrough(msg) ==
    (IF msg.type = "notifyClient"
     THEN <<[handler |-> "socketIO.notifyClient", value |-> Undefined]>>
     ELSE <<>>)
    \o (IF msg.type \in {"notifyClient", "pushEncode"}
        THEN <<[handler |-> "encodeManage.push", value |-> msg.value]>>
        ELSE <<>>)

HandlerCalls(msg) ==
    IF msg.type = "notifyClient"
    THEN <<[handler |-> "socketIO.notifyClient", value |-> Undefined]>>
    ELSE IF msg.type = "pushEncode"
    THEN <<[handler |-> "encodeManage.push", value |-> msg.value]>>
    ELSE <<>>

\* process.on('message', ...) for a message without an id whose handler,
\* if it has one, returns normally
ReceivePush(msg) ==
    /\ running
    /\ connected
    /\ tickQueue = <<>>
    /\ ~IsReplay(msg)
    /\ handled' = HandlerCalls(msg)
    /\ UNCHANGED <<now, processSend, connected, calls, listener, timers,
                   tickQueue, sent, lastEmit, running>>

\* process.on('message', ...) for a message without an id whose handler
\* throws: the handler function is async and has no try/catch, so its
\* promise is rejected and nobody handles the rejection; the runtime either
\* only warns or terminates the process, depending on its version and flags
ReceivePushThrow(msg) ==
    /\ running
    /\ connected
    /\ tickQueue = <<>>
    /\ ~IsReplay(msg)
    /\ HandlerCalls(msg) # <<>>
    /\ handled' = HandlerCalls(msg)
    /\ running' \in BOOLEAN
    /\ UNCHANGED <<now, processSend, connected, calls, listener, timers,
                   tickQueue, sent, lastEmit>>

\* the record of one dispatched push message: what it was, which handler
\* calls its dispatch made and whether a handler threw
Logged(msg, threw) ==
    /\ Len(inLog) < MaxPush
    /\ inLog' = Append(inLog, [type |-> msg.type, value |-> msg.value,
                               made |-> handled', threw |-> threw])

\* the setTimeout callback of send()
TimerFire(c) ==
    /\ running
    /\ c \in timers
    /\ tickQueue = <<>>
    /\ now >= calls[c].id + calls[c].timeout
    /\ timers' = timers \ {c}
    /\ listener' = RemoveAllListeners(listener, ToString10(calls[c].id))
    /\ calls' = [calls EXCEPT ![c].promise = OnTimeout(@)]
    /\ UNCHANGED <<now, processSend, connected, tickQueue, sent, handled,
                   lastEmit, running, inLog>>

\* the wall clock advances by one millisecond
Tick ==
    /\ running
    /\ now < StartTime + MaxTicks
    /\ now' = now + 1
    /\ UNCHANGED <<processSend, connected, calls, listener, timers,
                   tickQueue, sent, handled, lastEmit, running, inLog>>

\* the parent closes the channel; IPCClient registers no 'disconnect'
\* handler, so nothing of its state changes
ChannelLost ==
    /\ running
    /\ connected
    /\ connected' = FALSE
    /\ UNCHANGED <<now, processSend, calls, listener, timers, tickQueue,
                   sent, handled, lastEmit, running, inLog>>

Next ==
    \/ \E timeout \in Timeouts : Send(timeout)
    \/ NextTick
    \/ \E msg \in Messages : ReceiveReplay(msg)
    \/ \E msg \in Messages : ReceivePush(msg) /\ UNCHANGED inLog
    \/ \E c \in CallIds : TimerFire(c)
    \/ Tick
    \/ ChannelLost

Spec == Init /\ [][Next]_vars

\* The dispatcher under everything the wire can carry and under handlers
\* that may throw, with the dispatched push messages recorded; one call is
\* made at most, so that the record can grow.
NextDispatch ==
    \/ \E timeout \in Timeouts : calls = <<>> /\ Send(timeout)
    \/ NextTick
    \/ \E msg \in WireMessages : ReceiveReplay(msg)
    \/ \E msg \in WireMessages : ReceivePush(msg) /\ Logged(msg, FALSE)
    \/ \E msg \in WireMessages : ReceivePushThrow(msg) /\ Logged(msg, TRUE)
    \/ \E c \in CallIds : TimerFire(c)
    \/ Tick
    \/ ChannelLost

SpecDispatch == Init /\ [][NextDispatch]_vars

\* The client under a clock that keeps advancing, nextTick callbacks that
\* run and armed timers that fire once they are due; a call with a timeout
\* is made only while the modelled clock can still reach its deadline, and
\* the inbound messages are those without a result and without a value.
LiveMessages ==
    {msg \in Messages : msg.result = Undefined /\ msg.type # "pushEncode"}

NextLive ==
    \/ \E timeout \in Timeouts :
          /\ ArmsTimer(timeout) => now + timeout <= StartTime + MaxTicks
          /\ Send(timeout)
    \/ NextTick
    \/ \E msg \in LiveMessages : ReceiveReplay(msg)
    \/ \E msg \in LiveMessages : ReceivePush(msg) /\ UNCHANGED inLog
    \/ \E c \in CallIds : TimerFire(c)
    \/ Tick
    \/ ChannelLost

SpecLive ==
    /\ Init
    /\ [][NextLive]_vars
    /\ WF_vars(Tick)
    /\ WF_vars(NextTick)
    /\ \A c \in 1..MaxCalls : WF_vars(TimerFire(c))

\* ---- vocabulary of the properties ---------------------------------------
Name(c) == ToString10(calls[c].id)
Pending(c) == calls[c].promise.state = "pending"
\* the Correlation Table: the calls that still have a reply listener
TableEntries == UNION {Range(listener[n]) : n \in EventNames}
TimeoutRejected ==
    [state |-> "rejected", value |-> "IPCTimeout", by |-> "timer"]

\* C1: a settled promise never changes again, whatever replies and timer
\* firings follow (terminal states are absorbing, at most one settlement).
C1_AtMostOnce ==
    [][\A c \in CallIds :
         ~Pending(c) => calls'[c].promise = calls[c].promise]_vars

\* a call settled by a reply whose timer has fired afterwards
C1_Witness ==
    \E c \in CallIds :
        /\ calls[c].promise.by = "reply"
        /\ ArmsTimer(calls[c].timeout)
        /\ c \notin timers

\* C2: two calls pending at the same time never carry the same request id.
C2_UniqueIds ==
    \A c, d \in CallIds :
        (c # d /\ Pending(c) /\ Pending(d)) => calls[c].id # calls[d].id

\* C3: with process.send undefined, a call whose nextTick callback has run
\* is rejected with ChannelUnavailable and has no timer armed.
C3_ChannelUnavailable ==
    ~processSend =>
        \A c \in CallIds :
            c \notin Range(tickQueue) =>
                /\ calls[c].promise.state = "rejected"
                /\ calls[c].promise.value = "ChannelUnavailable"
                /\ c \notin timers

\* C4: the step that loses the channel rejects every pending call with
\* ChannelClosed and empties the Correlation Table.
C4_DrainOnLoss ==
    [][(connected /\ ~connected') =>
         /\ \A c \in CallIds :
                Pending(c) =>
                    /\ calls'[c].promise.state = "rejected"
                    /\ calls'[c].promise.value = "ChannelClosed"
         /\ \A n \in EventNames : listener'[n] = <<>>]_vars

\* C5: when the timer of a still pending call fires the call is rejected
\* with IPCTimeout, and a call rejected by its timer has no listener left
\* under its identifier in that state and in every later one.
C5_Timeout ==
    [][\A c \in CallIds :
         /\ (c \in timers /\ c \notin timers' /\ Pending(c))
                => calls'[c].promise = TimeoutRejected
         /\ calls'[c].promise.by = "timer"
                => listener'[Name(c)] = <<>>]_vars

\* a call has been rejected by its timer
C5_Witness ==
    \E c \in CallIds :
        /\ calls[c].promise = TimeoutRejected
        /\ now >= calls[c].id + calls[c].timeout

\* C6: a call made with timeout <= 0 never has a timer and is never
\* rejected by one; its promise changes only in the handling of a reply
\* that carries its identifier.
C6_UnboundedTimeout ==
    [][\A c \in DOMAIN calls' :
         calls'[c].timeout <= 0 =>
            /\ c \notin timers'
            /\ calls'[c].promise.by # "timer"
            /\ (c \in CallIds /\ calls'[c].promise # calls[c].promise)
                  => \E msg \in ReplayMessages :
                        msg.id = calls[c].id /\ ReceiveReplay(msg)]_vars

\* a call without timeout is still pending after the clock has moved on
\* and after the timer of another call on the same identifier has fired
C6_Witness ==
    \E c, d \in CallIds :
        /\ calls[c].timeout <= 0
        /\ Pending(c)
        /\ now > calls[c].id
        /\ calls[d].id = calls[c].id
        /\ calls[d].promise.by = "timer"

\* C7: whenever every call made so far has settled, no reply listener is
\* registered under any identifier.
C7_Quiescence ==
    (\A c \in CallIds : ~Pending(c)) =>
        \A n \in EventNames : listener[n] = <<>>

\* all calls were made and have settled, one by a reply and one by a timer
C7_Witness ==
    /\ Len(calls) = MaxCalls
    /\ \A c \in CallIds : ~Pending(c)
    /\ \E c \in CallIds : calls[c].promise.by = "reply"
    /\ \E c \in CallIds : calls[c].promise.by = "timer"

\* C8: the Correlation Table holds exactly the calls that have not settled.
C8_TableSize ==
    /\ Cardinality(TableEntries)
          = Cardinality({c \in CallIds : Pending(c)})
    /\ \A c \in CallIds : Pending(c) <=> c \in TableEntries

\* C9: handling a reply whose identifier has no listener raises nothing
\* and changes neither the table, nor any call, nor any timer.
C9_UnmatchedReply ==
    [][\A id \in Times :
         (/\ listener[ToString10(id)] = <<>>
          /\ UNCHANGED <<now, connected, timers, tickQueue, sent, handled>>
          /\ \E r \in Results, e \in ErrorStrings :
                ReceiveReplay([hasId |-> TRUE, id |-> id, type |-> Undefined,
                               value |-> Undefined, result |-> r,
                               error |-> e]))
            => /\ lastEmit' = "dropped"
               /\ UNCHANGED <<calls, listener>>]_vars

\* an unmatched reply was dropped while one call is pending with its
\* listener and another has already timed out
C9_Witness ==
    /\ lastEmit = "dropped"
    /\ \E c \in CallIds : Pending(c) /\ c \in TableEntries
    /\ \E c \in CallIds : calls[c].promise.by = "timer"

\* C10: the step in which a reply settles a pending call leaves every call
\* with another identifier as it was, promise and listener alike, and the
\* settled call is one registered under the identifier of that reply.
C10_Independent ==
    [][\A c \in CallIds :
         (Pending(c) /\ calls'[c].promise.by = "reply") =>
            /\ \E msg \in ReplayMessages :
                   msg.id = calls[c].id /\ ReceiveReplay(msg)
            /\ \A d \in CallIds :
                   calls[d].id # calls[c].id =>
                      /\ calls'[d] = calls[d]
                      /\ (d \in TableEntries) <=> (d \in TableEntries')]_vars

\* the later of two calls was settled by its reply while the earlier one
\* is still pending and registered
C10_Witness ==
    \E c, d \in CallIds :
        /\ calls[c].id < calls[d].id
        /\ calls[d].promise.by = "reply"
        /\ Pending(c)
        /\ c \in TableEntries

\* C11: a reply settles a pending call as its fields say: fulfilled with
\* the result when it has no error, rejected with the error text when it has
\* one; a timer settles it with the timeout rejection, and the rejection a
\* reply produces is never equal to the timeout rejection.
C11_OutcomeMapping ==
    [][\A c \in CallIds :
         (Pending(c) /\ (~Pending(c))') =>
            \/ calls'[c].promise = TimeoutRejected
            \/ /\ calls'[c].promise.by = "reply"
               /\ \E msg \in WireReplays :
                     /\ msg.id = calls[c].id
                     /\ ReceiveReplay(msg)
                     /\ IF msg.error = Undefined
                        THEN /\ calls'[c].promise.state = "fulfilled"
                             /\ calls'[c].promise.value = msg.result
                        ELSE /\ calls'[c].promise.state = "rejected"
                             /\ calls'[c].promise.value = msg.error
                             /\ calls'[c].promise.value
                                   # TimeoutRejected.value]_vars

\* C12: after a push handler has thrown, the process is still running and
\* goes on handling inbound messages.
C12_HandlerIsolation ==
    \A i \in DOMAIN inLog : inLog[i].threw => running

\* the handler calls made for the dispatched push messages, in order
RECURSIVE Invocations(_)
Invocations(log) ==
    IF log = <<>> THEN <<>>
    ELSE Head(log).made \o Invocations(Tail(log))

\* one handler name per dispatched message that has a handler, in order
RECURSIVE HandlersDue(_)
HandlersDue(log) ==
    IF log = <<>> THEN <<>>
    ELSE (IF Head(log).type = "notifyClient"
          THEN <<"socketIO.notifyClient">>
          ELSE IF Head(log).type = "pushEncode"
          THEN <<"encodeManage.push">>
          ELSE <<>>)
         \o HandlersDue(Tail(log))

\* C13: the handler calls made so far are, in order, exactly one call per
\* dispatched push message that has a handler, and the calls of the most
\* recent dispatch were all made within it.
C13_PushOrder ==
    /\ LET made == Invocations(inLog)
           due == HandlersDue(inLog)
       IN /\ Len(made) = Len(due)
          /\ \A i \in DOMAIN made : made[i].handler = due[i]
    /\ inLog # <<>> => handled = inLog[Len(inLog)].made

\* an encode push was dispatched and then a client notification, the first
\* of them with a throwing handler
C13_Witness ==
    /\ Len(inLog) = MaxPush
    /\ inLog[1].type = "pushEncode"
    /\ inLog[1].threw
    /\ inLog[Len(inLog)].type = "notifyClient"
    /\ running

\* C18: a message with an id, typed or not, is handled as a reply only and
\* makes no handler call (no step that changes the handler calls is the
\* handling of a message with an id); a message without an id leaves calls,
\* listeners and timers alone and makes the handler call of its type, or
\* none.
C18_Classification ==
    [][/\ (handled' # handled \/ inLog' # inLog) =>
            \A msg \in WireReplays :
                ~(\/ ReceiveReplay(msg)
                  \/ ReceivePush(msg)
                  \/ ReceivePushThrow(msg))
       /\ \A msg \in ParentMessages :
            (/\ UNCHANGED <<now, connected, tickQueue, sent>>
             /\ \/ ReceivePush(msg)
                \/ ReceivePushThrow(msg)
                \/ ReceiveReplay(msg))
               => /\ UNCHANGED <<calls, listener, timers, lastEmit>>
                  /\ msg.type = "notifyClient" =>
                        handled' = <<[handler |-> "socketIO.notifyClient",
                                      value |-> Undefined]>>
                  /\ msg.type = "pushEncode" =>
                        handled' = <<[handler |-> "encodeManage.push",
                                      value |-> msg.value]>>
                  /\ msg.type \notin {"notifyClient", "pushEncode"} =>
                        handled' = <<>>]_vars

\* a call was settled by a reply after an encode push was dispatched, and
\* the last push dispatched had no handler
C18_Witness ==
    /\ \E c \in CallIds : calls[c].promise.by = "reply"
    /\ Len(inLog) = MaxPush
    /\ inLog[1].type = "pushEncode"
    /\ inLog[Len(inLog)].type = "other"
    /\ handled = <<>>

\* C14: a call whose request has not been handed to the channel yet is
\* already registered under its identifier and pending, and every request
\* handed to the channel belongs to a call that was made; so the request of
\* a call never leaves before its listener is attached.
C14_RegisterBeforeSend ==
    /\ \A i \in DOMAIN tickQueue :
          /\ tickQueue[i] \in Range(listener[Name(tickQueue[i])])
          /\ Pending(tickQueue[i])
    /\ \A i \in DOMAIN sent :
          \E c \in CallIds :
              calls[c].id = sent[i].id /\ c \notin Range(tickQueue)

\* one request is on the channel while the next call is registered and
\* its request is still waiting for its nextTick callback
C14_Witness ==
    /\ sent # <<>>
    /\ tickQueue # <<>>
    /\ Head(tickQueue) \in TableEntries

\* C15: no timer is armed for a call that a reply has settled.
C15_ReplyCancelsTimer ==
    \A c \in CallIds : calls[c].promise.by = "reply" => c \notin timers

\* C16: the step in which the timer of a call fires changes neither the
\* promise nor the table entry of any other call, and changes nothing of
\* calls and listeners when its own call was settled before.
C16_ExpireScoped ==
    [][\A c \in CallIds :
         (c \in timers /\ c \notin timers') =>
            /\ \A d \in CallIds \ {c} :
                  /\ calls'[d] = calls[d]
                  /\ (d \in TableEntries) <=> (d \in TableEntries')
            /\ ~Pending(c) => UNCHANGED <<calls, listener>>]_vars

\* C17: no identifier ever has two listeners registered, and a call made
\* under an identifier that already had a pending listener is rejected with
\* DuplicateIdentifier.
C17_NoDuplicateEntry ==
    /\ \A n \in EventNames : Len(listener[n]) <= 1
    /\ \A c, d \in CallIds :
          (c < d /\ calls[c].id = calls[d].id /\ d \in Range(tickQueue)
             /\ c \in TableEntries)
            => calls[d].promise.value = "DuplicateIdentifier"

\* C19: one step settles at most one call by a reply, and a call settled by
\* a reply is settled in the handling of a reply that carries the id of its
\* own request.
C19_OneReplyOneCall ==
    [][/\ Cardinality({c \in CallIds :
                         Pending(c) /\ calls'[c].promise.by = "reply"}) <= 1
       /\ \A c \in CallIds :
            (Pending(c) /\ calls'[c].promise.by = "reply") =>
               \E msg \in ReplayMessages :
                  msg.id = calls[c].id /\ ReceiveReplay(msg)]_vars

\* C20: every call made with a timeout > 0 is eventually settled, given
\* that the clock advances and armed timers fire.
C20_BoundedSettle ==
    \A c \in 1..MaxCalls :
        (c \in CallIds /\ calls[c].timeout > 0)
            ~> (c \in CallIds /\ ~Pending(c))

\* with process.send undefined, a call was settled by its timer while
\* another call on the same identifier had been made
C20_Witness ==
    /\ ~processSend
    /\ \E c, d \in CallIds :
          /\ c # d
          /\ calls[c].id = calls[d].id
          /\ calls[c].promise = TimeoutRejected
====
